---- MODULE Spec2Model ----
(***************************************************************************)
(* Model of the question-collection library of src/src/nested.ts.          *)
(*                                                                         *)
(* Every exported function is a pure transform of an array of Question     *)
(* records.  The model keeps a current collection `questions`; each action *)
(* is one call of one exported function on it.  The call, its input and    *)
(* its result are recorded in `call`, `pre` and `out`; a call that returns *)
(* a collection makes that collection the current one, so that calls       *)
(* compose as a caller (the UI, the tests) composes them.                  *)
(*                                                                         *)
(* Strings are sequences of one-character strings, so that the CSV text    *)
(* can be built, split and compared character by character.  JavaScript    *)
(* arrays are 0-based; sequences here are 1-based, and every index that    *)
(* crosses the boundary is shifted explicitly.                             *)
(***************************************************************************)
EXTENDS Integers, Sequences, FiniteSets, TLC

VARIABLES questions, call, pre, out, steps

vars == <<questions, call, pre, out, steps>>

(***************************************************************************)
(* Bounds of the model.                                                    *)
(***************************************************************************)
MaxLen == 2
MaxSteps == 2
MaxIndex == 1

(***************************************************************************)
(* Strings.                                                                *)
(***************************************************************************)
EmptyStr == <<>>

Comma == <<",">>

Newline == <<"\n">>

MultipleChoice == "multiple_choice_question"

ShortAnswer == "short_answer_question"

QuestionType == {MultipleChoice, ShortAnswer}

DigitChars == <<"0", "1", "2", "3", "4", "5", "6", "7", "8", "9">>

RECURSIVE NatToStr(_)
NatToStr(n) ==
    IF n < 10 THEN <<DigitChars[n + 1]>>
    ELSE NatToStr(n \div 10) \o <<DigitChars[(n % 10) + 1]>>

\* number + string: the decimal representation of an integer
NumToStr(n) == IF n < 0 THEN <<"-">> \o NatToStr(-n) ELSE NatToStr(n)

\* string + boolean: the literals true and false
BoolToStr(b) == IF b THEN <<"t", "r", "u", "e">> ELSE <<"f", "a", "l", "s", "e">>

\* Array.prototype.join
RECURSIVE Join(_, _)
Join(strs, sep) ==
    IF Len(strs) = 0 THEN EmptyStr
    ELSE IF Len(strs) = 1 THEN strs[1]
    ELSE strs[1] \o sep \o Join(Tail(strs), sep)

\* Array.prototype.reduce with (acc, x) => acc + x
RECURSIVE Sum(_, _)
Sum(nums, acc) ==
    IF nums = <<>> THEN acc ELSE Sum(Tail(nums), acc + Head(nums))

(***************************************************************************)
(* The external factories of ./objects.                                    *)
(***************************************************************************)
DefaultPoints == 1

makeBlankQuestion ==
    [id |-> 0, name |-> EmptyStr, type |-> ShortAnswer, body |-> EmptyStr,
     expected |-> EmptyStr, options |-> <<>>, points |-> DefaultPoints,
     published |-> FALSE]

duplicateQuestion(id, oldQuestion) == [oldQuestion EXCEPT !.id = id]

\* the value null
Null == [null |-> TRUE]

(***************************************************************************)
(* The functions of nested.ts.  Array.prototype.filter is SelectSeq and    *)
(* Array.prototype.map is a function over the positions of the array.      *)
(***************************************************************************)
IsPublished(question) == question.published

getPublishedQuestions(qs) == SelectSeq(qs, IsPublished)

\* a non-empty string and a true comparison are the truthy operands of ||
IsNonEmpty(question) ==
    \/ question.body # EmptyStr
    \/ question.expected # EmptyStr
    \/ Len(question.options) > 0

getNonEmptyQuestions(qs) == SelectSeq(qs, IsNonEmpty)

\* the value undefined, what indexing past the end of an array yields
Undefined == [undefined |-> TRUE]

\* findQuestion without its length test
findQuestion_NoLengthTest(qs, id) ==
    LET foundQuestionArr == SelectSeq(qs, LAMBDA question : question.id = id)
    IN  IF Len(foundQuestionArr) # 0 THEN foundQuestionArr[1] ELSE Undefined

findQuestion(qs, id) ==
    LET foundQuestionArr == SelectSeq(qs, LAMBDA question : question.id = id)
    IN  IF Len(foundQuestionArr) # 0 THEN foundQuestionArr[1] ELSE Null

\* removeQuestion dropping the first match only
RECURSIVE removeQuestion_FirstOnly(_, _)
removeQuestion_FirstOnly(qs, id) ==
    IF qs = <<>> THEN <<>>
    ELSE IF Head(qs).id = id THEN Tail(qs)
    ELSE <<Head(qs)>> \o removeQuestion_FirstOnly(Tail(qs), id)

removeQuestion(qs, id) == SelectSeq(qs, LAMBDA question : question.id # id)

getNames(qs) == [i \in 1..Len(qs) |-> qs[i].name]

sumPoints(qs) == Sum([i \in 1..Len(qs) |-> qs[i].points], 0)

sumPublishedPoints(qs) ==
    Sum([i \in 1..Len(qs) |->
            IF qs[i].published THEN qs[i].points ELSE 0], 0)

CsvHeader ==
    <<"i", "d", ",", "n", "a", "m", "e", ",", "o", "p", "t", "i", "o", "n", "s",
      ",", "p", "o", "i", "n", "t", "s", ",", "p", "u", "b", "l", "i", "s", "h",
      "e", "d">>

\* CsvLine with the options array itself concatenated, not its length
CsvLine_OptionsAsText(question) ==
    NumToStr(question.id) \o Comma \o question.name \o Comma
        \o Join(question.options, Comma) \o Comma
        \o NumToStr(question.points) \o Comma \o BoolToStr(question.published)

CsvLine(question) ==
    NumToStr(question.id) \o Comma \o question.name \o Comma
        \o NumToStr(Len(question.options)) \o Comma
        \o NumToStr(question.points) \o Comma \o BoolToStr(question.published)

toCSV(qs) ==
    LET newString == Join([i \in 1..Len(qs) |-> CsvLine(qs[i])], Newline)
    IN  CsvHeader \o Newline \o newString

MakeAnswer(question) ==
    [questionId |-> question.id, text |-> EmptyStr, submitted |-> FALSE,
     correct |-> FALSE]

makeAnswers(qs) == [i \in 1..Len(qs) |-> MakeAnswer(qs[i])]

\* PublishOne copying the published flag instead of setting it
PublishOne_CopyFlag(question) ==
    [id |-> question.id, name |-> question.name, type |-> question.type,
     body |-> question.body, expected |-> question.expected,
     options |-> question.options, points |-> question.points,
     published |-> question.published]

PublishOne(question) ==
    [id |-> question.id, name |-> question.name, type |-> question.type,
     body |-> question.body, expected |-> question.expected,
     options |-> question.options, points |-> question.points,
     published |-> TRUE]

publishAll(qs) == [i \in 1..Len(qs) |-> PublishOne(qs[i])]

sameType(qs) ==
    IF Len(qs) = 0 THEN TRUE
    ELSE LET firstType == qs[1].type
             sameArray == 
                 SelectSeq(qs, LAMBDA question : question.type = firstType)
         IN  Len(qs) = Len(sameArray)

CopyOne(question) ==
    [id |-> question.id, name |-> question.name, type |-> question.type,
     body |-> question.body, expected |-> question.expected,
     options |-> question.options, points |-> question.points,
     published |-> question.published]

\* addNewQuestion putting the blank question first
addNewQuestion_Prepend(qs, id, name, type) ==
    LET newQuestions == [i \in 1..Len(qs) |-> CopyOne(qs[i])]
        newBlankQuestion ==
            [makeBlankQuestion EXCEPT !.id = id, !.name = name, !.type = type]
    IN  <<newBlankQuestion>> \o newQuestions

addNewQuestion(qs, id, name, type) ==
    LET newQuestions == [i \in 1..Len(qs) |-> CopyOne(qs[i])]
        newBlankQuestion ==
            [makeBlankQuestion EXCEPT !.id = id, !.name = name, !.type = type]
    IN  newQuestions \o <<newBlankQuestion>>

RenameOne(question, targetId, newName) ==
    IF question.id # targetId THEN question
    ELSE [question EXCEPT !.name = newName]

renameQuestionById(qs, targetId, newName) ==
    [i \in 1..Len(qs) |-> RenameOne(qs[i], targetId, newName)]

\* ChangeTypeOne without the reset of the options
ChangeTypeOne_KeepOptions(question, targetId, newQuestionType) ==
    IF question.id # targetId THEN question
    ELSE [question EXCEPT !.type = newQuestionType]

ChangeTypeOne(question, targetId, newQuestionType) ==
    LET newType == newQuestionType # MultipleChoice
    IN  IF question.id # targetId THEN question
        ELSE [question EXCEPT !.type = newQuestionType,
                              !.options = IF newType THEN <<>>
                                          ELSE question.options]

changeQuestionTypeById(qs, targetId, newQuestionType) ==
    [i \in 1..Len(qs) |-> ChangeTypeOne(qs[i], targetId, newQuestionType)]

\* EditOptions comparing the index one position off
EditOptions_OffByOne(options, targetOptionIndex, newOption) ==
    LET addToEnd == targetOptionIndex = -1
    IN  IF addToEnd THEN options \o <<newOption>>
        ELSE [k \in 1..Len(options) |->
                 IF k = targetOptionIndex THEN newOption ELSE options[k]]

\* EditOptions appending when the index is past the last option
EditOptions_AppendPastEnd(options, targetOptionIndex, newOption) ==
    LET addToEnd == targetOptionIndex = -1 \/ targetOptionIndex >= Len(options)
    IN  IF addToEnd THEN options \o <<newOption>>
        ELSE [k \in 1..Len(options) |->
                 IF k - 1 = targetOptionIndex THEN newOption ELSE options[k]]

\* options[k] is the option at JavaScript index k - 1
EditOptions(options, targetOptionIndex, newOption) ==
    LET addToEnd == targetOptionIndex = -1
    IN  IF addToEnd THEN options \o <<newOption>>
        ELSE [k \in 1..Len(options) |->
                 IF k - 1 = targetOptionIndex THEN newOption ELSE options[k]]

EditOne(question, targetId, targetOptionIndex, newOption) ==
    IF question.id # targetId THEN question
    ELSE [question EXCEPT
             !.options = EditOptions(question.options, targetOptionIndex,
                                     newOption)]

editOption(qs, targetId, targetOptionIndex, newOption) ==
    [i \in 1..Len(qs) |->
        EditOne(qs[i], targetId, targetOptionIndex, newOption)]

\* DuplicateStep with the duplicate placed before the original
DuplicateStep_Before(result, question, targetId, newId) ==
    IF question.id = targetId
    THEN result \o <<duplicateQuestion(newId, question), question>>
    ELSE result \o <<question>>

DuplicateStep(result, question, targetId, newId) ==
    IF question.id = targetId
    THEN result \o <<question, duplicateQuestion(newId, question)>>
    ELSE result \o <<question>>

\* Array.prototype.reduce over the questions, from the empty array
RECURSIVE DuplicateFold(_, _, _, _)
DuplicateFold(result, rest, targetId, newId) ==
    IF rest = <<>> THEN result
    ELSE DuplicateFold(DuplicateStep(result, Head(rest), targetId, newId),
                       Tail(rest), targetId, newId)

duplicateQuestionInArray(qs, targetId, newId) ==
    DuplicateFold(<<>>, qs, targetId, newId)

(***************************************************************************)
(* Inputs: the questions a caller starts from and the arguments it passes. *)
(***************************************************************************)
Addition ==
    [id |-> 1, name |-> <<"A", "d", "d", "i", "t", "i", "o", "n">>,
     type |-> ShortAnswer, body |-> EmptyStr, expected |-> EmptyStr,
     options |-> <<>>, points |-> 1, published |-> TRUE]

Colors ==
    [id |-> 2, name |-> <<"C", "o", "l", "o", "r", "s">>,
     type |-> MultipleChoice, body |-> <<"?">>, expected |-> <<"r">>,
     options |-> << <<"r">>, <<"g">> >>, points |-> 10, published |-> FALSE]

\* shares its id with Addition; its name holds a comma
Shapes ==
    [id |-> 1, name |-> <<"S", ",", "h">>,
     type |-> MultipleChoice, body |-> EmptyStr, expected |-> EmptyStr,
     options |-> << <<"x">> >>, points |-> 0, published |-> FALSE]

\* an empty question with an empty name
Empty ==
    [id |-> 2, name |-> EmptyStr,
     type |-> ShortAnswer, body |-> EmptyStr, expected |-> EmptyStr,
     options |-> <<>>, points |-> 2, published |-> TRUE]

Pool == {Addition, Colors, Shapes, Empty}

RECURSIVE SeqsUpTo(_, _)
SeqsUpTo(S, n) ==
    IF n = 0 THEN {<<>>}
    ELSE LET shorter == SeqsUpTo(S, n - 1)
         IN  shorter \cup {Append(s, x) : s \in shorter, x \in S}

Ids == {1, 2, 3}

\* a name that holds a newline character
NewNames == {<<"N", "\n", "w">>}

NewOptions == {<<"x">>}

Indices == (-2)..MaxIndex

NoCall ==
    [op |-> "none", id |-> 0, newId |-> 0, name |-> EmptyStr,
     type |-> ShortAnswer, index |-> 0, option |-> EmptyStr]

Init ==
    /\ questions \in SeqsUpTo(Pool, MaxLen)
    /\ call = NoCall
    /\ pre = questions
    /\ out = Null
    /\ steps = 0

\* a call that returns a value other than a collection
Observe(c, result) ==
    /\ steps < MaxSteps
    /\ steps' = steps + 1
    /\ call' = c
    /\ pre' = questions
    /\ out' = result
    /\ UNCHANGED questions

\* a call that returns a collection, which the caller goes on with
Transform(c, result) ==
    /\ steps < MaxSteps
    /\ steps' = steps + 1
    /\ call' = c
    /\ pre' = questions
    /\ out' = result
    /\ questions' = result

GetPublishedQuestions ==
    Transform([NoCall EXCEPT !.op = "getPublishedQuestions"],
              getPublishedQuestions(questions))

GetNonEmptyQuestions ==
    Transform([NoCall EXCEPT !.op = "getNonEmptyQuestions"],
              getNonEmptyQuestions(questions))

FindQuestion ==
    \E id \in Ids :
        Observe([NoCall EXCEPT !.op = "findQuestion", !.id = id],
                findQuestion(questions, id))

RemoveQuestion ==
    \E id \in Ids :
        Transform([NoCall EXCEPT !.op = "removeQuestion", !.id = id],
                  removeQuestion(questions, id))

GetNames ==
    Observe([NoCall EXCEPT !.op = "getNames"], getNames(questions))

SumPoints ==
    Observe([NoCall EXCEPT !.op = "sumPoints"], sumPoints(questions))

SumPublishedPoints ==
    Observe([NoCall EXCEPT !.op = "sumPublishedPoints"],
            sumPublishedPoints(questions))

ToCSV ==
    Observe([NoCall EXCEPT !.op = "toCSV"], toCSV(questions))

MakeAnswers ==
    Observe([NoCall EXCEPT !.op = "makeAnswers"], makeAnswers(questions))

PublishAll ==
    Transform([NoCall EXCEPT !.op = "publishAll"], publishAll(questions))

SameType ==
    Observe([NoCall EXCEPT !.op = "sameType"], sameType(questions))

AddNewQuestion ==
    \E id \in Ids, name \in NewNames, type \in QuestionType :
        Transform([NoCall EXCEPT !.op = "addNewQuestion", !.id = id,
                                 !.name = name, !.type = type],
                  addNewQuestion(questions, id, name, type))

RenameQuestionById ==
    \E targetId \in Ids, newName \in NewNames :
        Transform([NoCall EXCEPT !.op = "renameQuestionById", !.id = targetId,
                                 !.name = newName],
                  renameQuestionById(questions, targetId, newName))

ChangeQuestionTypeById ==
    \E targetId \in Ids, newQuestionType \in QuestionType :
        Transform([NoCall EXCEPT !.op = "changeQuestionTypeById",
                                 !.id = targetId, !.type = newQuestionType],
                  changeQuestionTypeById(questions, targetId, newQuestionType))

EditOption ==
    \E targetId \in Ids, targetOptionIndex \in Indices, newOption \in NewOptions :
        Transform([NoCall EXCEPT !.op = "editOption", !.id = targetId,
                                 !.index = targetOptionIndex,
                                 !.option = newOption],
                  editOption(questions, targetId, targetOptionIndex, newOption))

DuplicateQuestionInArray ==
    \E targetId \in Ids, newId \in Ids :
        Transform([NoCall EXCEPT !.op = "duplicateQuestionInArray",
                                 !.id = targetId, !.newId = newId],
                  duplicateQuestionInArray(questions, targetId, newId))

Next ==
    \/ GetPublishedQuestions
    \/ GetNonEmptyQuestions
    \/ FindQuestion
    \/ RemoveQuestion
    \/ GetNames
    \/ SumPoints
    \/ SumPublishedPoints
    \/ ToCSV
    \/ MakeAnswers
    \/ PublishAll
    \/ SameType
    \/ AddNewQuestion
    \/ RenameQuestionById
    \/ ChangeQuestionTypeById
    \/ EditOption
    \/ DuplicateQuestionInArray

Spec == Init /\ [][Next]_vars

(***************************************************************************)
(* Vocabulary of the properties.                                           *)
(***************************************************************************)
\* the positions of qs that hold the given id
Matches(qs, id) == {i \in 1..Len(qs) : qs[i].id = id}

\* how many positions before i hold the given id
MatchesBefore(qs, i, id) == Cardinality({j \in Matches(qs, id) : j < i})

\* a is b with zero or more elements left out
RECURSIVE IsSubseq(_, _)
IsSubseq(a, b) ==
    IF a = <<>> THEN TRUE
    ELSE IF b = <<>> THEN FALSE
    ELSE IF Head(a) = Head(b) THEN IsSubseq(Tail(a), Tail(b))
    ELSE IsSubseq(a, Tail(b))

\* the text cut at every newline character
RECURSIVE SplitLines(_)
SplitLines(text) ==
    IF \A k \in 1..Len(text) : text[k] # "\n" THEN <<text>>
    ELSE LET cut == CHOOSE k \in 1..Len(text) :
                        /\ text[k] = "\n"
                        /\ \A j \in 1..(k - 1) : text[j] # "\n"
         IN  <<SubSeq(text, 1, cut - 1)>>
                 \o SplitLines(SubSeq(text, cut + 1, Len(text)))

\* the five fields of a record line, comma separated
RecordText(q) ==
    Join(<<NumToStr(q.id), q.name, NumToStr(Len(q.options)),
           NumToStr(q.points), BoolToStr(q.published)>>, Comma)

\* the header and the first k record texts, a newline before each record
RECURSIVE CsvRows(_, _)
CsvRows(qs, k) ==
    IF k = 0 THEN CsvHeader
    ELSE CsvRows(qs, k - 1) \o Newline \o RecordText(qs[k])

HasNewline(text) == \E k \in 1..Len(text) : text[k] = "\n"

SameIds(a, b) ==
    /\ Len(a) = Len(b)
    /\ \A i \in 1..Len(a) : a[i].id = b[i].id

(***************************************************************************)
(* C1: toCSV of the empty collection is exactly the header line, with no   *)
(* newline and no further character after it.                              *)
(***************************************************************************)
C1_EmptyCsvIsHeaderOnly ==
    (call.op = "toCSV" /\ pre = <<>>) => out = CsvHeader

(***************************************************************************)
(* C2: toCSV of n > 0 questions is the header line followed by n record    *)
(* lines in input order, line i holding the id, the name, the number of    *)
(* options, the points and published (true/false) of question i, comma     *)
(* separated; one newline between lines and none after the last.  When no  *)
(* name holds a newline character, cutting the text at its newlines gives  *)
(* exactly these n + 1 lines.                                              *)
(***************************************************************************)
C2_CsvRecordLines ==
    (call.op = "toCSV" /\ Len(pre) > 0) =>
        /\ out = CsvRows(pre, Len(pre))
        /\ out[Len(out)] # "\n"
        /\ (\A i \in 1..Len(pre) : ~HasNewline(pre[i].name)) =>
               LET lines == SplitLines(out)
               IN  /\ Len(lines) = Len(pre) + 1
                   /\ lines[1] = CsvHeader
                   /\ \A i \in 1..Len(pre) :
                         lines[i + 1] = RecordText(pre[i])
                   /\ Cardinality({k \in 1..Len(out) : out[k] = "\n"})
                          = Len(pre)

C2_Witness ==
    /\ call.op = "toCSV"
    /\ Len(pre) >= 2
    /\ \E i \in 1..Len(pre) : Len(pre[i].options) = 2 /\ pre[i].points = 10
    /\ \E i \in 1..Len(pre) : pre[i].published
    /\ \A i \in 1..Len(pre) : ~HasNewline(pre[i].name)

(***************************************************************************)
(* C3: duplicateInArray(qs, targetId, newId) has length |qs| plus the      *)
(* number of elements with id targetId; every such element is immediately  *)
(* followed by duplicate(newId, element); leaving the inserted duplicates  *)
(* out gives qs back.  Also with several matches and newId = targetId.     *)
(***************************************************************************)
C3_DuplicateAfterEveryMatch ==
    call.op = "duplicateQuestionInArray" =>
        /\ Len(out) = Len(pre) + Cardinality(Matches(pre, call.id))
        /\ \A i \in 1..Len(pre) :
              LET at == i + MatchesBefore(pre, i, call.id)
              IN  /\ out[at] = pre[i]
                  /\ pre[i].id = call.id =>
                         out[at + 1] = duplicateQuestion(call.newId, pre[i])

C3_Witness ==
    /\ call.op = "duplicateQuestionInArray"
    /\ Cardinality(Matches(pre, call.id)) >= 2
    /\ call.newId = call.id
    /\ \E i \in 1..Len(pre) : pre[i].id # call.id

(***************************************************************************)
(* C4: remove(qs, id) holds no element with that id and every other        *)
(* element of qs in its original order, so find on it yields null; and     *)
(* find(qs, id) for a present id is the first element of qs with that id.  *)
(***************************************************************************)
C4_RemoveAllFindFirst ==
    /\ call.op = "removeQuestion" =>
           /\ Matches(out, call.id) = {}
           /\ Len(out) = Len(pre) - Cardinality(Matches(pre, call.id))
           /\ \A i \in 1..Len(pre) :
                 pre[i].id # call.id =>
                     out[i - MatchesBefore(pre, i, call.id)] = pre[i]
           /\ findQuestion(out, call.id) = Null
    /\ (call.op = "findQuestion" /\ Matches(pre, call.id) # {}) =>
           \E i \in Matches(pre, call.id) :
               /\ \A j \in Matches(pre, call.id) : i <= j
               /\ out = pre[i]

C4_Witness ==
    /\ call.op = "removeQuestion"
    /\ Cardinality(Matches(pre, call.id)) >= 2
    /\ Len(out) >= 1

(***************************************************************************)
(* C5: changeTypeById keeps the length; an element with id targetId gets   *)
(* the new type, empty options unless the new type is multiple choice (its *)
(* own options then), and keeps its other fields; other elements are       *)
(* unchanged.                                                              *)
(***************************************************************************)
C5_ChangeType ==
    call.op = "changeQuestionTypeById" =>
        /\ Len(out) = Len(pre)
        /\ \A i \in 1..Len(pre) :
              IF pre[i].id = call.id
              THEN /\ out[i].type = call.type
                   /\ out[i].options = IF call.type = MultipleChoice
                                       THEN pre[i].options ELSE <<>>
                   /\ out[i].id = pre[i].id
                   /\ out[i].name = pre[i].name
                   /\ out[i].body = pre[i].body
                   /\ out[i].expected = pre[i].expected
                   /\ out[i].points = pre[i].points
                   /\ out[i].published = pre[i].published
                   /\ DOMAIN out[i] = DOMAIN pre[i]
              ELSE out[i] = pre[i]

C5_Witness ==
    /\ call.op = "changeQuestionTypeById"
    /\ call.type = ShortAnswer
    /\ \E i \in 1..Len(pre) :
          /\ pre[i].id = call.id
          /\ pre[i].type = MultipleChoice
          /\ pre[i].options # <<>>
    /\ \E i \in 1..Len(pre) : pre[i].id # call.id

(***************************************************************************)
(* C6: editOption with index -1 appends newOption to the options of every  *)
(* element with id targetId; with an index i, 0 <= i < number of options,  *)
(* it replaces only position i.  The other fields of that element and all  *)
(* elements with another id are unchanged.                                 *)
(***************************************************************************)
C6_EditOptionAppendOrReplace ==
    call.op = "editOption" =>
        /\ Len(out) = Len(pre)
        /\ \A i \in 1..Len(pre) :
              LET old == pre[i].options
                  new == out[i].options
              IN  IF pre[i].id # call.id THEN out[i] = pre[i]
                  ELSE /\ out[i] = [pre[i] EXCEPT !.options = new]
                       /\ call.index = -1 =>
                              /\ Len(new) = Len(old) + 1
                              /\ SubSeq(new, 1, Len(old)) = old
                              /\ new[Len(new)] = call.option
                       /\ (0 <= call.index /\ call.index < Len(old)) =>
                              /\ Len(new) = Len(old)
                              /\ new[call.index + 1] = call.option
                              /\ \A k \in 1..Len(old) :
                                    k # call.index + 1 => new[k] = old[k]

C6_Witness ==
    /\ call.op = "editOption"
    /\ call.index = 1
    /\ \E i \in 1..Len(pre) :
          /\ pre[i].id = call.id
          /\ Len(pre[i].options) = 2
          /\ pre[i].options[2] # call.option
          /\ out[i].options[2] = call.option
    /\ \E i \in 1..Len(pre) : pre[i].id # call.id /\ pre[i].options # <<>>

(***************************************************************************)
(* C7: when no element has the requested id, find returns null, and        *)
(* renameById and duplicateInArray return a collection equal to the input  *)
(* element for element.                                                    *)
(***************************************************************************)
C7_NotFoundIsGraceful ==
    Matches(pre, call.id) = {} =>
        /\ call.op = "findQuestion" => out = Null
        /\ call.op \in {"renameQuestionById", "duplicateQuestionInArray"} =>
               /\ Len(out) = Len(pre)
               /\ \A i \in 1..Len(pre) : out[i] = pre[i]

C7_Witness ==
    /\ call.op = "findQuestion"
    /\ Len(pre) >= 2
    /\ Matches(pre, call.id) = {}
    /\ out = Null

(***************************************************************************)
(* C8: publishAll keeps the length and every field of every element but    *)
(* published, which becomes true; so getPublished of the result is the     *)
(* result itself, of the length of the input.                              *)
(***************************************************************************)
C8_PublishAll ==
    call.op = "publishAll" =>
        /\ Len(out) = Len(pre)
        /\ \A i \in 1..Len(pre) : out[i] = [pre[i] EXCEPT !.published = TRUE]
        /\ getPublishedQuestions(out) = out
        /\ Len(getPublishedQuestions(out)) = Len(pre)

C8_Witness ==
    /\ call.op = "publishAll"
    /\ \E i \in 1..Len(pre) : ~pre[i].published
    /\ \E i \in 1..Len(pre) : pre[i].published

(***************************************************************************)
(* C9: every call that returns a collection preserves the relative order   *)
(* of the questions: rename, changeType, editOption and publishAll keep    *)
(* the length and the id at every position; getPublished, getNonEmpty and  *)
(* remove return a subsequence of the input; addQuestion returns the input *)
(* followed by one element with the given id, name and type; the input is  *)
(* a subsequence of what duplicateInArray returns.                         *)
(***************************************************************************)
C9_OrderPreserved ==
    /\ call.op \in {"renameQuestionById", "changeQuestionTypeById",
                    "editOption", "publishAll"} => SameIds(out, pre)
    /\ call.op \in {"getPublishedQuestions", "getNonEmptyQuestions",
                    "removeQuestion"} => IsSubseq(out, pre)
    /\ call.op = "addNewQuestion" =>
           /\ Len(out) = Len(pre) + 1
           /\ SubSeq(out, 1, Len(pre)) = pre
           /\ out[Len(out)].id = call.id
           /\ out[Len(out)].name = call.name
           /\ out[Len(out)].type = call.type
    /\ call.op = "duplicateQuestionInArray" => IsSubseq(pre, out)

C9_Witness ==
    /\ steps = 2
    /\ call.op = "addNewQuestion"
    /\ Len(pre) >= 2
    /\ \E i \in 1..Len(pre) : pre[i] \notin Pool

====
